---- MODULE Spec2Model ----
(***************************************************************************)
(* A model of www/orm.py: the connection-pool facade (create_pool,         *)
(* destroy_pool), the statement executor (select, execute), the entity     *)
(* type builder (ModelMetaclass.__new__) and the entity instance (Model).  *)
(*                                                                         *)
(* Four specifications share the module:                                   *)
(*   SpecMeta  class declarations run through ModelMetaclass.__new__       *)
(*   SpecPool  concurrent select/execute calls over the shared pool        *)
(*   SpecOrm   one Model instance and its table: save/update/remove/find   *)
(*   SpecFind  findAll over a populated table with a caller-owned args list *)
(***************************************************************************)
EXTENDS Integers, Sequences, FiniteSets, TLC

VARIABLES
    decl,        \* SpecMeta: the class statement handed to the metaclass
    res,         \* SpecMeta: what ModelMetaclass.__new__ did with it
    pool,        \* SpecPool: the module global __pool
    free,        \* SpecPool: the pool's idle connections
    used,        \* SpecPool: the pool's connections handed out
    call,        \* SpecPool: one record per caller coroutine
    destroy,     \* SpecPool: the coroutine running destroy_pool
    cls,         \* SpecOrm, SpecFind: the declared entity class
    table,       \* SpecOrm, SpecFind: the database table, primary key -> row
    inst,        \* SpecOrm: the Model instance (a dict)
    invoked,     \* SpecOrm: per key, how often its default producer was called
    last,        \* SpecOrm, SpecFind: the latest ORM call and its outcome
    callerArgs   \* SpecFind: the list object the caller passes as args

vars == <<decl, res, pool, free, used, call, destroy,
          cls, table, inst, invoked, last, callerArgs>>

metaVars == <<decl, res>>
poolVars == <<pool, free, used, call, destroy>>
ormVars  == <<cls, table, inst, invoked, last, callerArgs>>

\* what a step of one specification leaves alone: the state of the others
MetaFrame == UNCHANGED <<poolVars, ormVars>>
PoolFrame == UNCHANGED <<metaVars, ormVars>>
OrmFrame  == UNCHANGED <<metaVars, poolVars>>

----------------------------------------------------------------------------
(* Bounds of the model *)

MaxFields == 3     \* attributes in a class statement
MaxVal    == 1     \* distinct non-null column values

----------------------------------------------------------------------------
(* Python values *)

\* Python's None (SQL NULL), kept apart from the values 1..MaxVal
None == -1

\* a name that is None: falsy, as in `primaryKey = None` and `name=None`
NoName == ""

Values == 1..MaxVal

\* attribute names a class body may use, in the order it declares them
AttrNames == <<"id", "a", "b", "c", "d", "e">>

Range(s) == {s[i] : i \in DOMAIN s}

\* no exception pending
NoExc == [exc |-> "", msg |-> "", arg |-> NoName]

\* the names Python 3 binds as builtin exceptions (StandardError left with Python 2)
Py3Builtins ==
    {"BaseException", "Exception", "NameError", "ValueError", "TypeError",
     "RuntimeError", "KeyError", "AttributeError"}

\* `raise StandardError(msg % k)`: the callee name is looked up first
RaiseStandardError(msg, k) ==
    IF "StandardError" \in Py3Builtins
    THEN [exc |-> "StandardError", msg |-> msg, arg |-> k]
    ELSE [exc |-> "NameError", msg |-> "name 'StandardError' is not defined",
          arg |-> NoName]

----------------------------------------------------------------------------
(* Field descriptors *)

NoDefault == [kind |-> "none", value |-> None, range |-> {}]
Literal(v) == [kind |-> "literal", value |-> v, range |-> {}]
\* a zero-argument callable; range is what a call may return
Producer(rng) == [kind |-> "callable", value |-> None, range |-> rng]

\* Field.__init__
Field(name, column_type, primary_key, default) ==
    [isField |-> TRUE, name |-> name, column_type |-> column_type,
     primary_key |-> primary_key, default |-> default]

\* StringField.__init__ with ddl left at its default
StringField(name, primary_key, default) ==
    Field(name, "varchar(100)", primary_key, default)

\* IntegerField.__init__, the default given by the class statement
IntegerField(name, primary_key, default) ==
    Field(name, "bigint", primary_key, default)

\* a class attribute that is no Field (a method, a plain value)
PlainAttr ==
    [isField |-> FALSE, name |-> NoName, column_type |-> "",
     primary_key |-> FALSE, default |-> NoDefault]

----------------------------------------------------------------------------
(* SQL text, as the sequence of its tokens *)

Kw(s)  == [t |-> "kw",  v |-> s]
Col(s) == [t |-> "col", v |-> s]     \* `s`
Tbl(s) == [t |-> "tbl", v |-> s]     \* `s` in table position
Ph     == [t |-> "ph",  v |-> "?"]   \* the placeholder the ORM writes
PyPh   == [t |-> "ph",  v |-> "%s"]  \* the placeholder the driver reads
Sep    == [t |-> "sep", v |-> ","]
EqSign == [t |-> "op",  v |-> "="]
LPar   == [t |-> "par", v |-> "("]
RPar   == [t |-> "par", v |-> ")"]

\* ', '.join(items), each item a token sequence
RECURSIVE Join(_)
Join(items) ==
    IF items = <<>> THEN <<>>
    ELSE IF Len(items) = 1 THEN items[1]
    ELSE items[1] \o <<Sep>> \o Join(Tail(items))

\* ' '.join(parts)
RECURSIVE Concat(_)
Concat(parts) ==
    IF parts = <<>> THEN <<>> ELSE Head(parts) \o Concat(Tail(parts))

\* create_args_string with one placeholder too few
create_args_string_short(num) ==
    Join([n \in 1..(IF num > 0 THEN num - 1 ELSE 0) |-> <<Ph>>])

\* create_args_string
create_args_string(num) ==
    Join([n \in 1..num |-> <<Ph>>])

\* the number of '?' in a statement
Placeholders(sql) == Cardinality({i \in DOMAIN sql : sql[i] = Ph})

\* sql.replace('?', '%s')
Replace(sql) == [i \in DOMAIN sql |-> IF sql[i] = Ph THEN PyPh ELSE sql[i]]

\* the number of '%s' the driver has to fill from args
PyPlaceholders(sql) == Cardinality({i \in DOMAIN sql : sql[i] = PyPh})

----------------------------------------------------------------------------
(* ModelMetaclass.__new__ *)

\* a class statement: the class name and attrs in declaration order
\* (tableName is attrs['__table__'], NoName when the body has none)
ClassStmt(name, tableName, attrs) ==
    [name |-> name, tableName |-> tableName, attrs |-> attrs]

EmptyMap == [k \in {} |-> PlainAttr]

\* the loop `for k, v in attrs.items()` from entry i on
RECURSIVE Scan(_, _, _)
Scan(attrs, i, st) ==
    IF i > Len(attrs) \/ st.raised # NoExc THEN st
    ELSE
        LET k == attrs[i].k
            v == attrs[i].v
        IN  IF ~v.isField THEN Scan(attrs, i + 1, st)
            ELSE LET m == (k :> v) @@ st.mappings
                 IN  IF v.primary_key
                     THEN IF st.primaryKey # NoName
                          THEN [st EXCEPT !.mappings = m,
                                   !.raised = RaiseStandardError(
                                       "Duplicate primary key for field: %s", k)]
                          ELSE Scan(attrs, i + 1,
                                   [st EXCEPT !.mappings = m, !.primaryKey = k])
                     ELSE Scan(attrs, i + 1,
                              [st EXCEPT !.mappings = m,
                                         !.fields = Append(st.fields, k)])

NoClass ==
    [name |-> NoName, mapped |-> FALSE, mappings |-> EmptyMap, table |-> NoName,
     primary_key |-> NoName, fields |-> <<>>, select |-> <<>>, insert |-> <<>>,
     update |-> <<>>, delete |-> <<>>, attrs |-> {}]

\* the column the update template names for field f: mappings.get(f).name or f
UpdateColumn(mappings, f) ==
    IF mappings[f].name # NoName THEN mappings[f].name ELSE f

\* __select__
SelectTemplate(tableName, primaryKey, escaped_fields) ==
    <<Kw("select"), Col(primaryKey), Sep>> \o Join(escaped_fields)
        \o <<Kw("from"), Tbl(tableName)>>

\* __insert__ with the primary key leading the column list, as __select__ has it
InsertTemplatePkFirst(tableName, primaryKey, escaped_fields) ==
    <<Kw("insert into"), Tbl(tableName), LPar, Col(primaryKey), Sep>>
        \o Join(escaped_fields) \o <<RPar, Kw("values"), LPar>>
        \o create_args_string(Len(escaped_fields) + 1) \o <<RPar>>

\* __insert__
InsertTemplate(tableName, primaryKey, escaped_fields) ==
    <<Kw("insert into"), Tbl(tableName), LPar>> \o Join(escaped_fields)
        \o <<Sep, Col(primaryKey), RPar, Kw("values"), LPar>>
        \o create_args_string(Len(escaped_fields) + 1) \o <<RPar>>

\* __update__
UpdateTemplate(tableName, primaryKey, mappings, fields) ==
    <<Kw("update"), Tbl(tableName), Kw("set")>>
        \o Join([i \in DOMAIN fields |->
                    <<Col(UpdateColumn(mappings, fields[i])), EqSign, Ph>>])
        \o <<Kw("where"), Col(primaryKey), EqSign, Ph>>

\* __delete__
DeleteTemplate(tableName, primaryKey) ==
    <<Kw("delete from"), Tbl(tableName), Kw("where"), Col(primaryKey), EqSign, Ph>>

\* ModelMetaclass.__new__(Class, name, bases, attrs)
MetaNew(stmt) ==
    IF stmt.name = "Model"
    THEN [raised |-> NoExc,
          cls |-> [NoClass EXCEPT !.name = "Model",
                       !.attrs = {stmt.attrs[i].k : i \in DOMAIN stmt.attrs}]]
    ELSE
        LET tableName == IF stmt.tableName # NoName THEN stmt.tableName ELSE stmt.name
            st == Scan(stmt.attrs, 1,
                       [mappings |-> EmptyMap, fields |-> <<>>,
                        primaryKey |-> NoName, raised |-> NoExc])
        IN  IF st.raised # NoExc THEN [raised |-> st.raised, cls |-> NoClass]
            ELSE IF st.primaryKey = NoName
            THEN [raised |-> RaiseStandardError("Primary key not found.", NoName),
                  cls |-> NoClass]
            ELSE
                LET escaped_fields == [i \in DOMAIN st.fields |-> <<Col(st.fields[i])>>]
                IN  [raised |-> NoExc,
                     cls |-> [name |-> stmt.name,
                              mapped |-> TRUE,
                              mappings |-> st.mappings,
                              table |-> tableName,
                              primary_key |-> st.primaryKey,
                              fields |-> st.fields,
                              select |-> SelectTemplate(tableName, st.primaryKey,
                                                        escaped_fields),
                              insert |-> InsertTemplate(tableName, st.primaryKey,
                                                        escaped_fields),
                              update |-> UpdateTemplate(tableName, st.primaryKey,
                                                        st.mappings, st.fields),
                              delete |-> DeleteTemplate(tableName, st.primaryKey),
                              attrs |-> {stmt.attrs[i].k : i \in DOMAIN stmt.attrs}
                                            \ DOMAIN st.mappings]]

----------------------------------------------------------------------------
(* Connection pool facade and statement executor                            *)
(*                                                                          *)
(* Each caller coroutine runs one select or execute at a time; every await  *)
(* is a step at which the event loop may switch to another coroutine.  The  *)
(* driver may fail (or the coroutine be cancelled) at every awaited call.   *)

NumCallers == 2    \* coroutines issuing select/execute
PoolSize   == 1    \* connections the pool may hand out (maxsize)
MaxRows    == 1    \* largest rowcount a statement reports

Callers == 1..NumCallers
Conns   == 1..PoolSize
Rows    == 0..MaxRows

IdleCall ==
    [pc |-> "idle", kind |-> "", autocommit |-> TRUE, conn |-> {}, log |-> <<>>,
     err |-> "", affected |-> None, ret |-> None, acquired |-> 0]

IdleDestroy == [pc |-> "idle", err |-> "", bound |-> FALSE]

\* one driver call on the connection and how it ended
Issued(op, ok) == [op |-> op, ok |-> ok]

\* create_pool: binds __pool to a fresh, open pool (the model lets it run
\* when no pool is bound or the bound one is fully closed)
CreatePool ==
    /\ pool \in {"unbound", "closed"}
    /\ destroy.pc = "idle"
    /\ pool' = "open"
    /\ free' = Conns
    /\ used' = {}
    /\ UNCHANGED <<call, destroy>>
    /\ PoolFrame

\* destroy_pool up to its await: `if __pool is not None: __pool.close()`
DestroyPool ==
    /\ destroy.pc = "idle"
    /\ IF pool = "unbound"
       THEN \* the global was never assigned: reading it raises NameError
            /\ destroy' = [pc |-> "raised", err |-> "NameError", bound |-> FALSE]
            /\ UNCHANGED <<pool, free>>
       ELSE \* close(): no more acquires, idle connections are closed
            /\ destroy' = [pc |-> "wait_closed", err |-> "", bound |-> TRUE]
            /\ pool' = IF pool = "open" THEN "closing" ELSE pool
            /\ free' = {}
    /\ UNCHANGED <<used, call>>
    /\ PoolFrame

\* destroy_pool resumed: `await __pool.wait_closed()` ends when no connection is out
DestroyWaitClosed ==
    /\ destroy.pc = "wait_closed"
    /\ used = {}
    /\ pool' = "closed"
    /\ destroy' = [destroy EXCEPT !.pc = "returned"]
    /\ UNCHANGED <<free, used, call>>
    /\ PoolFrame

\* the caller of destroy_pool takes its outcome
DestroyDone ==
    /\ destroy.pc \in {"returned", "raised"}
    /\ destroy' = IdleDestroy
    /\ UNCHANGED <<pool, free, used, call>>
    /\ PoolFrame

\* a caller enters select(sql, args, size)
SelectCall(p) ==
    /\ call[p].pc = "idle"
    /\ call' = [call EXCEPT ![p] = [IdleCall EXCEPT !.pc = "acquire", !.kind = "select"]]
    /\ UNCHANGED <<pool, free, used, destroy>>
    /\ PoolFrame

\* a caller enters execute(sql, args, autocommit)
ExecuteCall(p, autocommit) ==
    /\ call[p].pc = "idle"
    /\ call' = [call EXCEPT ![p] = [IdleCall EXCEPT !.pc = "acquire",
                                        !.kind = "execute",
                                        !.autocommit = autocommit]]
    /\ UNCHANGED <<pool, free, used, destroy>>
    /\ PoolFrame

\* `async with __pool.get() as conn`: entering the block
PoolGet(p, nextpc) ==
    /\ call[p].pc = "acquire"
    /\ \/ /\ pool = "unbound"      \* NameError: __pool was never assigned
          /\ call' = [call EXCEPT ![p].pc = "raised", ![p].err = "NameError"]
          /\ UNCHANGED <<free, used>>
       \/ /\ pool \in {"closing", "closed"}   \* the pool refuses: RuntimeError
          /\ call' = [call EXCEPT ![p].pc = "raised", ![p].err = "RuntimeError"]
          /\ UNCHANGED <<free, used>>
       \/ /\ pool = "open"         \* waits while no connection is idle
          /\ \E c \in free :
                /\ free' = free \ {c}
                /\ used' = used \cup {c}
                /\ call' = [call EXCEPT ![p].conn = {c}, ![p].acquired = @ + 1,
                                        ![p].pc = nextpc]
    /\ UNCHANGED <<pool, destroy>>
    /\ PoolFrame

\* leaving the `async with` block, but keeping the connection when an error is pending
PoolReleaseUnlessError(p) ==
    /\ call[p].pc = "release"
    /\ IF call[p].err = ""
       THEN /\ used' = used \ call[p].conn
            /\ free' = IF pool = "open" THEN free \cup call[p].conn ELSE free
            /\ call' = [call EXCEPT ![p].conn = {}, ![p].pc = "returned"]
       ELSE /\ call' = [call EXCEPT ![p].pc = "raised"]
            /\ UNCHANGED <<free, used>>
    /\ UNCHANGED <<pool, destroy>>
    /\ PoolFrame

\* leaving the `async with __pool.get()` block: the connection goes back
PoolRelease(p) ==
    /\ call[p].pc = "release"
    /\ used' = used \ call[p].conn
    /\ free' = IF pool = "open" THEN free \cup call[p].conn ELSE free
    /\ call' = [call EXCEPT ![p].conn = {},
                            ![p].pc = IF call[p].err = "" THEN "returned" ELSE "raised"]
    /\ UNCHANGED <<pool, destroy>>
    /\ PoolFrame

\* select: acquiring the connection
SelectAcquire(p) ==
    /\ call[p].kind = "select"
    /\ PoolGet(p, "execute")

\* select: `await cur.execute(sql.replace('?', '%s'), args or ())`
SelectExecute(p) ==
    /\ call[p].kind = "select"
    /\ call[p].pc = "execute"
    /\ \E ok \in BOOLEAN :
          call' = [call EXCEPT ![p].log = Append(@, Issued("execute", ok)),
                               ![p].err = IF ok THEN "" ELSE "E_execute",
                               ![p].pc = IF ok THEN "fetch" ELSE "release"]
    /\ UNCHANGED <<pool, free, used, destroy>>
    /\ PoolFrame

\* select: `rs = await cur.fetchmany(size)` or `await cur.fetchall()`, then return rs
SelectFetch(p) ==
    /\ call[p].kind = "select"
    /\ call[p].pc = "fetch"
    /\ \E ok \in BOOLEAN, n \in Rows :
          call' = [call EXCEPT ![p].log = Append(@, Issued("fetch", ok)),
                               ![p].err = IF ok THEN "" ELSE "E_fetch",
                               ![p].ret = IF ok THEN n ELSE None,
                               ![p].pc = "release"]
    /\ UNCHANGED <<pool, free, used, destroy>>
    /\ PoolFrame

\* execute: acquiring the connection
ExecuteAcquire(p) ==
    /\ call[p].kind = "execute"
    /\ PoolGet(p, IF call[p].autocommit THEN "execute" ELSE "begin")

\* execute: `if not autocommit: await conn.begin()`, outside the try block
ExecuteBegin(p) ==
    /\ call[p].kind = "execute"
    /\ call[p].pc = "begin"
    /\ \E ok \in BOOLEAN :
          call' = [call EXCEPT ![p].log = Append(@, Issued("begin", ok)),
                               ![p].err = IF ok THEN "" ELSE "E_begin",
                               ![p].pc = IF ok THEN "execute" ELSE "release"]
    /\ UNCHANGED <<pool, free, used, destroy>>
    /\ PoolFrame

\* execute: `await cur.execute(...)`; `affected = cur.rowcount`
ExecuteStatement(p) ==
    /\ call[p].kind = "execute"
    /\ call[p].pc = "execute"
    /\ \E ok \in BOOLEAN, n \in Rows :
          call' = [call EXCEPT
                     ![p].log = Append(@, Issued("execute", ok)),
                     ![p].err = IF ok THEN "" ELSE "E_execute",
                     ![p].affected = IF ok THEN n ELSE None,
                     ![p].ret = IF ok /\ call[p].autocommit THEN n ELSE None,
                     ![p].pc = IF call[p].autocommit THEN "release"
                               ELSE IF ok THEN "commit" ELSE "rollback"]
    /\ UNCHANGED <<pool, free, used, destroy>>
    /\ PoolFrame

\* execute: a failed commit re-raised without the rollback
ExecuteCommitNoRollback(p) ==
    /\ call[p].kind = "execute"
    /\ call[p].pc = "commit"
    /\ \E ok \in BOOLEAN :
          call' = [call EXCEPT ![p].log = Append(@, Issued("commit", ok)),
                               ![p].err = IF ok THEN "" ELSE "E_commit",
                               ![p].ret = IF ok THEN call[p].affected ELSE None,
                               ![p].pc = "release"]
    /\ UNCHANGED <<pool, free, used, destroy>>
    /\ PoolFrame

\* execute: `if not autocommit: await conn.commit()`, inside the try block
ExecuteCommit(p) ==
    /\ call[p].kind = "execute"
    /\ call[p].pc = "commit"
    /\ \E ok \in BOOLEAN :
          call' = [call EXCEPT ![p].log = Append(@, Issued("commit", ok)),
                               ![p].err = IF ok THEN "" ELSE "E_commit",
                               ![p].ret = IF ok THEN call[p].affected ELSE None,
                               ![p].pc = IF ok THEN "release" ELSE "rollback"]
    /\ UNCHANGED <<pool, free, used, destroy>>
    /\ PoolFrame

\* execute: `except BaseException: if not autocommit: await conn.rollback(); raise`
ExecuteRollback(p) ==
    /\ call[p].kind = "execute"
    /\ call[p].pc = "rollback"
    /\ \E ok \in BOOLEAN :
          call' = [call EXCEPT ![p].log = Append(@, Issued("rollback", ok)),
                               \* a failing rollback's error replaces the one in flight
                               ![p].err = IF ok THEN @ ELSE "E_rollback",
                               ![p].pc = "release"]
    /\ UNCHANGED <<pool, free, used, destroy>>
    /\ PoolFrame

\* the caller takes the call's outcome and is free to issue another
CallDone(p) ==
    /\ call[p].pc \in {"returned", "raised"}
    /\ call' = [call EXCEPT ![p] = IdleCall]
    /\ UNCHANGED <<pool, free, used, destroy>>
    /\ PoolFrame

InitPool ==
    /\ pool = "unbound"
    /\ free = {}
    /\ used = {}
    /\ call = [p \in Callers |-> IdleCall]
    /\ destroy = IdleDestroy

NextPool ==
    \/ CreatePool
    \/ DestroyPool
    \/ DestroyWaitClosed
    \/ DestroyDone
    \/ \E p \in Callers : SelectCall(p)
    \/ \E p \in Callers, autocommit \in BOOLEAN : ExecuteCall(p, autocommit)
    \/ \E p \in Callers : SelectAcquire(p)
    \/ \E p \in Callers : SelectExecute(p)
    \/ \E p \in Callers : SelectFetch(p)
    \/ \E p \in Callers : ExecuteAcquire(p)
    \/ \E p \in Callers : ExecuteBegin(p)
    \/ \E p \in Callers : ExecuteStatement(p)
    \/ \E p \in Callers : ExecuteCommit(p)
    \/ \E p \in Callers : ExecuteRollback(p)
    \/ \E p \in Callers : PoolRelease(p)
    \/ \E p \in Callers : CallDone(p)

----------------------------------------------------------------------------
(* Class declarations *)

\* what an attribute of a class body may be bound to
AttrChoices ==
    {StringField(nm, pk, NoDefault) :
        nm \in {NoName} \cup {AttrNames[i] : i \in 1..MaxFields}, pk \in BOOLEAN}
    \cup {PlainAttr}

\* the class statements of up to MaxFields attributes
ClassStmts ==
    {ClassStmt(nm, tbl, [i \in 1..n |-> [k |-> AttrNames[i], v |-> f[i]]]) :
        nm \in {"Model", "User"}, tbl \in {NoName, "users"},
        n \in 0..MaxFields, f \in [1..MaxFields -> AttrChoices]}

Pending == [done |-> FALSE, raised |-> NoExc, cls |-> NoClass]

\* the class statement is executed: the metaclass builds the class or raises
DeclareClass ==
    /\ ~res.done
    /\ res' = [done |-> TRUE, raised |-> MetaNew(decl).raised, cls |-> MetaNew(decl).cls]
    /\ UNCHANGED decl
    /\ MetaFrame

InitMeta ==
    /\ decl \in ClassStmts
    /\ res = Pending

NextMeta == DeclareClass

----------------------------------------------------------------------------
(* The database behind cur.execute: one table whose columns are the ones    *)
(* the class's select and insert statements name, primary key NOT NULL and  *)
(* unique.  Statements arrive as the driver sees them, with %s placeholders. *)

MaxPk == 1      \* distinct primary-key values

PkVals == 1..MaxPk

Columns(c) == {c.primary_key} \cup Range(c.fields)

EmptyTable == [k \in {} |-> 0]

IsCol(tok) == tok.t = "col"

\* the column names among the tokens, in order
ColNames(toks) ==
    LET s == SelectSeq(toks, IsCol) IN [i \in DOMAIN s |-> s[i].v]

\* where tok first stands in sql, 0 when it does not
IndexOf(sql, tok) ==
    IF \E i \in DOMAIN sql : sql[i] = tok
    THEN CHOOSE i \in DOMAIN sql : sql[i] = tok /\ \A j \in 1..(i - 1) : sql[j] # tok
    ELSE 0

\* token pairs no SQL statement contains: "(,"  ", from"  "set where"
BadPair(x, y) ==
    \/ x = LPar /\ y = Sep
    \/ x = Sep /\ y.t = "kw"
    \/ x = Kw("set") /\ y = Kw("where")

SyntaxOk(sql) == \A i \in 1..(Len(sql) - 1) : ~BadPair(sql[i], sql[i + 1])

DbResult(err, rowcount, rows, tbl) ==
    [err |-> err, rowcount |-> rowcount, rows |-> rows, table |-> tbl]

\* the value the last of the assignments cols[i] = vals[i] gives column k
Assigned(cols, vals, k, old) ==
    LET hits == {i \in DOMAIN cols : cols[i] = k}
    IN  IF hits = {} THEN old
        ELSE vals[CHOOSE i \in hits : \A j \in hits : j <= i]

DbInsert(sql, args, tbl, c) ==
    LET cols == ColNames(SubSeq(sql, 1, IndexOf(sql, RPar)))
        row  == [k \in Columns(c) |-> Assigned(cols, args, k, None)]
        pkv  == row[c.primary_key]
    IN  IF ~(Range(cols) \subseteq Columns(c))
        THEN DbResult("OperationalError", 0, <<>>, tbl)     \* unknown column
        ELSE IF pkv = None \/ pkv \in DOMAIN tbl
        THEN DbResult("IntegrityError", 0, <<>>, tbl)       \* NULL or duplicate key
        ELSE DbResult("", 1, <<>>, (pkv :> row) @@ tbl)

\* the primary keys of the rows `where col = val` selects
Matching(tbl, col, val) ==
    {p \in DOMAIN tbl : val # None /\ tbl[p][col] = val}

DbUpdate(sql, args, tbl, c) ==
    LET w       == IndexOf(sql, Kw("where"))
        setcols == ColNames(SubSeq(sql, 1, w - 1))
        col     == sql[w + 1].v
        hit     == Matching(tbl, col, args[Len(args)])
        new(p)  == [k \in Columns(c) |-> Assigned(setcols, args, k, tbl[p][k])]
        newpks  == {new(p)[c.primary_key] : p \in hit}
        changed == {p \in hit : new(p) # tbl[p]}
    IN  IF ~(Range(setcols) \cup {col} \subseteq Columns(c))
        THEN DbResult("OperationalError", 0, <<>>, tbl)
        ELSE IF \/ None \in newpks
                \/ Cardinality(newpks) # Cardinality(hit)
                \/ newpks \cap (DOMAIN tbl \ hit) # {}
        THEN DbResult("IntegrityError", 0, <<>>, tbl)
        ELSE DbResult("", Cardinality(changed), <<>>,
                 [q \in (DOMAIN tbl \ hit) \cup newpks |->
                     IF \E p \in hit : new(p)[c.primary_key] = q
                     THEN new(CHOOSE p \in hit : new(p)[c.primary_key] = q)
                     ELSE tbl[q]])

DbDelete(sql, args, tbl, c) ==
    LET w   == IndexOf(sql, Kw("where"))
        col == sql[w + 1].v
        hit == Matching(tbl, col, args[Len(args)])
    IN  IF col \notin Columns(c)
        THEN DbResult("OperationalError", 0, <<>>, tbl)
        ELSE DbResult("", Cardinality(hit), <<>>,
                 [q \in DOMAIN tbl \ hit |-> tbl[q]])

\* the rows with keys lo..MaxPk in hit, in key order, cut to the columns cols
RECURSIVE RowsAsc(_, _, _, _)
RowsAsc(tbl, hit, cols, lo) ==
    IF lo > MaxPk THEN <<>>
    ELSE (IF lo \in hit THEN <<[k \in cols |-> tbl[lo][k]]>> ELSE <<>>)
            \o RowsAsc(tbl, hit, cols, lo + 1)

Min(x, y) == IF x <= y THEN x ELSE y

DbSelect(sql, args, tbl, c) ==
    LET f      == IndexOf(sql, Kw("from"))
        cols   == ColNames(SubSeq(sql, 1, f - 1))
        w      == IndexOf(sql, Kw("where"))
        o      == IndexOf(sql, Kw("order by"))
        l      == IndexOf(sql, Kw("limit"))
        wcols  == (IF w = 0 THEN {} ELSE {sql[w + 1].v})
                      \cup (IF o = 0 THEN {} ELSE {sql[o + 1].v})
        hit    == IF w = 0 THEN DOMAIN tbl ELSE Matching(tbl, sql[w + 1].v, args[1])
        all    == RowsAsc(tbl, hit, Range(cols), 1)
        nlimit == IF l = 0 THEN 0 ELSE PyPlaceholders(SubSeq(sql, l, Len(sql)))
        first  == IF nlimit = 2 THEN args[Len(args) - 1] + 1 ELSE 1
        count  == IF l = 0 THEN Len(all) ELSE args[Len(args)]
        rows   == SubSeq(all, first, Min(Len(all), first + count - 1))
    IN  IF ~(Range(cols) \cup wcols \subseteq Columns(c))
        THEN DbResult("OperationalError", 0, <<>>, tbl)
        ELSE DbResult("", Len(rows), rows, tbl)

\* cur.execute(query, args): the driver fills the placeholders, the server runs it
CursorExecute(sql, args, tbl, c) ==
    IF PyPlaceholders(sql) # Len(args)
    THEN DbResult("TypeError", 0, <<>>, tbl)            \* query % args
    ELSE IF ~SyntaxOk(sql)
    THEN DbResult("ProgrammingError", 0, <<>>, tbl)
    ELSE IF sql[1] = Kw("insert into") THEN DbInsert(sql, args, tbl, c)
    ELSE IF sql[1] = Kw("update") THEN DbUpdate(sql, args, tbl, c)
    ELSE IF sql[1] = Kw("delete from") THEN DbDelete(sql, args, tbl, c)
    ELSE DbSelect(sql, args, tbl, c)

\* select(sql, args, size) seen from its caller, the pool being open:
\* the rows fetched, or the error raised
select(sql, args, size, tbl, c) ==
    LET r == CursorExecute(Replace(sql), args, tbl, c)
    IN  IF r.err # "" THEN r
        ELSE IF size # None /\ size # 0
        THEN [r EXCEPT !.rows = SubSeq(r.rows, 1, Min(size, Len(r.rows)))]
        ELSE r

\* execute(sql, args) with autocommit left True, seen from its caller:
\* the affected-row count, or the error raised
execute(sql, args, tbl, c) ==
    CursorExecute(Replace(sql), args, tbl, c)

----------------------------------------------------------------------------
(* Model: the entity instance, a dict with attribute access *)

MaxInvoke == 2     \* producer calls counted per key of one instance

EmptyDict == [k \in {} |-> None]

Keys(c) == DOMAIN c.mappings

\* the values the model lets a caller store under key k
FieldVals(c, k) == IF k = c.primary_key THEN PkVals ELSE Values

\* Model.getValue: getattr(self, key, None)
getValue(self, key) == IF key \in DOMAIN self THEN self[key] ELSE None

\* getValueOrDefault that forgets `setattr(self, key, value)`
getValueOrDefaultNoStore(c, self, key, produced) ==
    LET value   == getValue(self, key)
        default == c.mappings[key].default
    IN  IF value = None /\ default.kind # "none"
        THEN [value  |-> IF default.kind = "callable" THEN produced ELSE default.value,
              self   |-> self,
              called |-> default.kind = "callable"]
        ELSE [value |-> value, self |-> self, called |-> FALSE]

\* Model.getValueOrDefault; produced is what field.default() returns if it is called.
\* Yields the value returned, the instance afterwards, whether the producer ran.
getValueOrDefault(c, self, key, produced) ==
    LET value   == getValue(self, key)
        default == c.mappings[key].default
    IN  IF value = None /\ default.kind # "none"
        THEN LET v == IF default.kind = "callable" THEN produced ELSE default.value
             IN  [value |-> v, self |-> (key :> v) @@ self,
                  called |-> default.kind = "callable"]
        ELSE [value |-> value, self |-> self, called |-> FALSE]

\* what the producers may return when asked for the keys that lack a value
Productions(c, self) ==
    {f \in [Keys(c) -> PkVals \cup Values \cup {None}] :
        \A k \in Keys(c) :
            IF getValue(self, k) = None /\ c.mappings[k].default.kind = "callable"
            THEN f[k] \in c.mappings[k].default.range
            ELSE f[k] = None}

\* list(map(self.getValueOrDefault, keys)), left to right
RECURSIVE MapGetValueOrDefault(_, _, _, _)
MapGetValueOrDefault(c, self, keys, prod) ==
    IF keys = <<>> THEN [self |-> self, args |-> <<>>, called |-> {}]
    ELSE LET r    == getValueOrDefault(c, self, Head(keys), prod[Head(keys)])
             rest == MapGetValueOrDefault(c, r.self, Tail(keys), prod)
         IN  [self   |-> rest.self,
              args   |-> <<r.value>> \o rest.args,
              called |-> (IF r.called THEN {Head(keys)} ELSE {}) \cup rest.called]

\* list(map(self.getValue, keys))
MapGetValue(self, keys) == [i \in DOMAIN keys |-> getValue(self, keys[i])]

\* the record of the latest call on the instance: what it was given, what it
\* did and how it ended
NoCall ==
    [op |-> "", err |-> "", sql |-> <<>>, args |-> <<>>, key |-> NoName,
     pk |-> None, ret |-> None, found |-> FALSE, obj |-> EmptyDict,
     hadRow |-> FALSE, before |-> EmptyDict, self |-> EmptyDict, called |-> {},
     mutated |-> NoName, passed |-> FALSE, made |-> <<>>, listBefore |-> <<>>,
     listAfter |-> <<>>, rows |-> <<>>]

\* the entity classes of the model
UserStmt ==      \* a key and two fields, none with a default
    ClassStmt("User", NoName,
        <<[k |-> "id", v |-> StringField("id", TRUE, NoDefault)],
          [k |-> "a",  v |-> StringField("a", FALSE, NoDefault)],
          [k |-> "b",  v |-> StringField(NoName, FALSE, NoDefault)]>>)

BlogStmt ==      \* a generated key, a literal default, a renamed column
    ClassStmt("Blog", "blogs",
        <<[k |-> "a",  v |-> StringField("alias", FALSE, Literal(1))],
          [k |-> "id", v |-> StringField(NoName, TRUE, Producer(PkVals))]>>)

DraftStmt ==     \* producers that may return None
    ClassStmt("Draft", NoName,
        <<[k |-> "id", v |-> StringField(NoName, TRUE, Producer(PkVals \cup {None}))],
          [k |-> "a",  v |-> StringField(NoName, FALSE, Producer(Values \cup {None}))]>>)

TagStmt ==       \* a key and nothing else
    ClassStmt("Tag", NoName,
        <<[k |-> "id", v |-> IntegerField(NoName, TRUE, Producer(PkVals))]>>)

OrmStmts == {UserStmt, BlogStmt, DraftStmt, TagStmt}

\* the class each statement declares
ClassOf == [n \in {stmt.name : stmt \in OrmStmts} |->
               MetaNew(CHOOSE stmt \in OrmStmts : stmt.name = n).cls]

\* the class the ORM calls work on: the one declared under the name cls
Class == IF cls = NoName THEN NoClass ELSE ClassOf[cls]

NoCalls(c) == [k \in Keys(c) |-> 0]

Bump(inv, called) == [k \in DOMAIN inv |-> IF k \in called THEN inv[k] + 1 ELSE inv[k]]

\* the row the table holds under key pk, if any
HasRow(tbl, pk) == pk \in DOMAIN tbl
RowOf(tbl, pk) == IF pk \in DOMAIN tbl THEN tbl[pk] ELSE EmptyDict

\* the instance is as it was built or loaded: nothing was assigned to it since
Fresh == last.op = "construct" \/ (last.op = "find" /\ last.found)

\* Model.__init__ with keywords kw: a fresh instance holding kw.  (Built right after another was
\* built or assigned to, it would only replace that one: the caller builds it
\* at the start or after a call that went to the database.)
Construct(kw) ==
    /\ cls # NoName
    /\ last.op \notin {"construct", "setattr", "getValueOrDefault"}
    /\ inst' = kw
    /\ invoked' = NoCalls(Class)
    /\ last' = [NoCall EXCEPT !.op = "construct"]
    /\ UNCHANGED <<cls, table, callerArgs>>
    /\ OrmFrame

\* Model.__setattr__: self[key] = value.  The record keeps which key was
\* assigned when it is the only one since the instance was built or loaded.
SetAttr(key, value) ==
    /\ cls # NoName
    /\ inst' = (key :> value) @@ inst
    /\ last' = [NoCall EXCEPT
                  !.op = "setattr",
                  !.key = IF Fresh \/ (last.op = "setattr" /\ last.key = key)
                          THEN key ELSE "*"]
    /\ UNCHANGED <<cls, table, invoked, callerArgs>>
    /\ OrmFrame

\* a direct call of Model.getValueOrDefault(key)
GetValueOrDefault(key) ==
    /\ cls # NoName
    /\ invoked[key] < MaxInvoke
    /\ \E prod \in Productions(Class, inst) :
          LET r == getValueOrDefault(Class, inst, key, prod[key])
              called == IF r.called THEN {key} ELSE {}
          IN  /\ inst' = r.self
              /\ invoked' = Bump(invoked, called)
              /\ last' = [NoCall EXCEPT !.op = "getValueOrDefault", !.key = key,
                                        !.ret = r.value, !.self = inst,
                                        !.obj = r.self, !.called = called]
    /\ UNCHANGED <<cls, table, callerArgs>>
    /\ OrmFrame

\* Model.save
Save ==
    /\ cls # NoName
    /\ \A k \in Keys(Class) : invoked[k] < MaxInvoke
    /\ \E prod \in Productions(Class, inst) :
          LET g    == MapGetValueOrDefault(Class, inst,
                          Append(Class.fields, Class.primary_key), prod)
              rows == execute(Class.insert, g.args, table, Class)
              pk   == g.args[Len(g.args)]
          IN  /\ inst' = g.self
              /\ invoked' = Bump(invoked, g.called)
              /\ table' = rows.table
              /\ last' = [NoCall EXCEPT !.op = "save", !.err = rows.err,  !.args = g.args,
                                        !.pk = pk, !.ret = rows.rowcount,
                                        !.hadRow = HasRow(table, pk),
                                        !.self = inst, !.obj = g.self,
                                        !.called = g.called]
    /\ UNCHANGED <<cls, callerArgs>>
    /\ OrmFrame

\* Model.update
Update ==
    /\ cls # NoName
    /\    LET args == Append(MapGetValue(inst, Class.fields),
                             getValue(inst, Class.primary_key))
              rows == execute(Class.update, args, table, Class)
              pk   == args[Len(args)]
          IN  /\ table' = rows.table
              /\ last' = [NoCall EXCEPT !.op = "update", !.err = rows.err,  !.args = args,
                                        !.pk = pk, !.ret = rows.rowcount,
                                        !.hadRow = HasRow(table, pk),
                                        !.before = RowOf(table, pk),
                                        !.self = inst, !.obj = inst,
                                        !.mutated = IF last.op = "setattr"
                                                    THEN last.key ELSE NoName]
    /\ UNCHANGED <<cls, inst, invoked, callerArgs>>
    /\ OrmFrame

\* Model.remove
Remove ==
    /\ cls # NoName
    /\    LET args == <<getValue(inst, Class.primary_key)>>
              rows == execute(Class.delete, args, table, Class)
          IN  /\ table' = rows.table
              /\ last' = [NoCall EXCEPT !.op = "remove", !.err = rows.err,  !.args = args,
                                        !.pk = args[1], !.ret = rows.rowcount,
                                        !.hadRow = HasRow(table, args[1]),
                                        !.self = inst, !.obj = inst]
    /\ UNCHANGED <<cls, inst, invoked, callerArgs>>
    /\ OrmFrame

\* Model.find(pk) on the table tbl: the error raised, else whether a row came
\* back and the instance the class builds from the first row
find(c, tbl, pk) ==
    LET sql == c.select \o <<Kw("where"), Col(c.primary_key), EqSign, Ph>>
        rs  == select(sql, <<pk>>, 1, tbl, c)
        hit == rs.err = "" /\ Len(rs.rows) # 0
    IN  [err |-> rs.err, found |-> hit,
         obj |-> IF hit THEN rs.rows[1] ELSE EmptyDict]

\* a call of Model.find(pk); the caller goes on with the instance it got back,
\* and with the one it had when find returned None or raised
Find(pk) ==
    /\ cls # NoName
    /\ LET r == find(Class, table, pk)
       IN  /\ last' = [NoCall EXCEPT !.op = "find", !.err = r.err, !.args = <<pk>>,
                                     !.pk = pk, !.found = r.found, !.obj = r.obj]
           /\ IF r.found
              THEN /\ inst' = r.obj
                   /\ invoked' = NoCalls(Class)
              ELSE UNCHANGED <<inst, invoked>>
    /\ UNCHANGED <<cls, table, callerArgs>>
    /\ OrmFrame

\* the keyword dicts a caller may construct an instance from
KwDicts(c) ==
    UNION {{kw \in [S -> PkVals \cup Values] : \A k \in S : kw[k] \in FieldVals(c, k)} :
              S \in SUBSET Keys(c)}

----------------------------------------------------------------------------
(* Model.findAll, with an args list the caller owns and may pass again *)

MaxArgs == 4       \* longest args list the model lets a caller pass

\* the limit option: absent, an int, an (offset, count) tuple, anything else
NoLimit        == [kind |-> "none",  a |-> 0, b |-> 0]
IntLimit(n)    == [kind |-> "int",   a |-> n, b |-> 0]
PairLimit(o, n) == [kind |-> "tuple", a |-> o, b |-> n]
OtherLimit     == [kind |-> "other", a |-> 0, b |-> 0]

Limits == {NoLimit, IntLimit(1), PairLimit(0, 1), PairLimit(1, 1), OtherLimit}

\* the where fragments a caller writes: none, or `f`=? on a mapped field
WhereClauses(c) == {<<>>} \cup {<<Col(c.fields[i]), EqSign, Ph>> : i \in DOMAIN c.fields}

\* the orderBy option: none, or the primary key
OrderClauses(c) == {<<>>, <<Col(c.primary_key)>>}

\* the caller builds a new list to pass as args
NewList(l) ==
    /\ cls # NoName
    /\ callerArgs' = l
    /\ last' = [NoCall EXCEPT !.op = "newlist", !.made = l]
    /\ UNCHANGED <<cls, table, inst, invoked>>
    /\ OrmFrame

\* Model.findAll(where, args, orderBy=..., limit=...); passed: args is the
\* caller's list, else it is left out (None)
FindAll(where, passed, orderBy, limit) ==
    /\ cls # NoName
    /\ Len(callerArgs) + 2 <= MaxArgs
    /\ LET sql0  == <<Class.select>>
           sql1  == IF where # <<>> THEN sql0 \o <<<<Kw("where")>>, where>> ELSE sql0
           args0 == IF passed THEN callerArgs ELSE <<>>
           sql2  == IF orderBy # <<>>
                    THEN sql1 \o <<<<Kw("order by")>>, orderBy>> ELSE sql1
           sql3  == IF limit.kind = "none" THEN sql2
                    ELSE IF limit.kind = "int"
                    THEN sql2 \o <<<<Kw("limit")>>, <<Ph>>>>
                    ELSE IF limit.kind = "tuple"
                    THEN sql2 \o <<<<Kw("limit")>>, <<Ph, Sep, Ph>>>>
                    ELSE sql2 \o <<<<Kw("limit")>>>>
           \* args.append(limit) / args.extend(limit): the list object itself grows
           args1 == IF limit.kind = "int" THEN Append(args0, limit.a)
                    ELSE IF limit.kind = "tuple" THEN args0 \o <<limit.a, limit.b>>
                    ELSE args0
           rs    == select(Concat(sql3), args1, None, table, Class)
       IN  IF limit.kind = "other"
           THEN /\ last' = [NoCall EXCEPT !.op = "findAll", !.err = "ValueError",
                                          !.passed = passed, !.made = last.made,
                                          !.listBefore = callerArgs,
                                          !.listAfter = callerArgs]
                /\ UNCHANGED callerArgs
           ELSE /\ callerArgs' = IF passed THEN args1 ELSE callerArgs
                /\ last' = [NoCall EXCEPT !.op = "findAll", !.err = rs.err,
                                          !.sql = Concat(sql3), !.args = args1,
                                          !.rows = rs.rows, !.passed = passed,
                                          !.made = last.made,
                                          !.listBefore = callerArgs,
                                          !.listAfter = IF passed THEN args1
                                                        ELSE callerArgs]
    /\ UNCHANGED <<cls, table, inst, invoked>>
    /\ OrmFrame

\* every content the table of class c can have
Tables(c) ==
    UNION {{t \in [S -> [Columns(c) -> PkVals \cup Values \cup {None}]] :
               \A p \in S : /\ t[p][c.primary_key] = p
                            /\ \A k \in Range(c.fields) : t[p][k] \in Values \cup {None}} :
           S \in SUBSET PkVals}

InitFind ==
    /\ cls \in DOMAIN ClassOf
    /\ table \in Tables(Class)
    /\ inst = EmptyDict
    /\ invoked = NoCalls(Class)
    /\ last = NoCall
    /\ callerArgs = <<>>

NextFind ==
    \/ \E l \in {<<>>} \cup {<<v>> : v \in Values} : NewList(l)
    \/ \E where \in WhereClauses(Class), passed \in BOOLEAN,
          orderBy \in OrderClauses(Class), limit \in Limits :
          FindAll(where, passed, orderBy, limit)

KwDictsOf == [n \in DOMAIN ClassOf |-> KwDicts(ClassOf[n])]

InitOrm ==
    /\ cls \in DOMAIN ClassOf
    /\ table = EmptyTable
    /\ inst = EmptyDict
    /\ invoked = NoCalls(Class)
    /\ last = NoCall
    /\ callerArgs = <<>>

NextOrm ==
    \/ \E kw \in KwDictsOf[cls] : Construct(kw)
    \/ \E key \in Keys(Class), value \in PkVals \cup Values :
          value \in FieldVals(Class, key) /\ SetAttr(key, value)
    \/ \E key \in Keys(Class) : GetValueOrDefault(key)
    \/ Save
    \/ Update
    \/ Remove
    \/ \E pk \in PkVals \cup {None} : Find(pk)

----------------------------------------------------------------------------
(* Specifications *)

MetaIdle == decl = ClassStmt("Model", NoName, <<>>) /\ res = Pending

PoolIdle == InitPool

OrmIdle ==
    /\ cls = NoName
    /\ table = EmptyTable
    /\ inst = EmptyDict
    /\ invoked = NoCalls(NoClass)
    /\ last = NoCall
    /\ callerArgs = <<>>

MetaStart == InitMeta /\ PoolIdle /\ OrmIdle
PoolStart == InitPool /\ MetaIdle /\ OrmIdle
OrmStart  == InitOrm /\ MetaIdle /\ PoolIdle
FindStart == InitFind /\ MetaIdle /\ PoolIdle

SpecMeta == MetaStart /\ [][NextMeta]_vars

SpecPool == PoolStart /\ [][NextPool]_vars

SpecOrm == OrmStart /\ [][NextOrm]_vars

SpecFind == FindStart /\ [][NextFind]_vars

----------------------------------------------------------------------------
(* Properties of execute's transaction protocol (SpecPool) *)

\* the driver calls named op that call p has issued so far, as log positions
At(p, op) == {i \in DOMAIN call[p].log : call[p].log[i].op = op}

\* call p is over: its caller has the return value or the exception
Over(p) == call[p].pc \in {"returned", "raised"}

\* call p is an execute(sql, args, autocommit=False) the pool gave a connection
Transactional(p) ==
    call[p].kind = "execute" /\ ~call[p].autocommit /\ call[p].acquired > 0

\* C1 as the specification states it: begin precedes the statement; a statement
\* that executes without error is followed by exactly one commit and the call
\* returns the affected-row count; a failing statement is followed by a
\* rollback before the error reaches the caller, no commit, and the error
\* raised is the statement's own; with autocommit=true no begin, commit or
\* rollback is ever issued.
C1_AsStated ==
    \A p \in Callers :
        /\ call[p].kind = "execute" /\ call[p].autocommit
              => At(p, "begin") \cup At(p, "commit") \cup At(p, "rollback") = {}
        /\ Transactional(p) =>
              /\ \A i \in At(p, "execute") : \E j \in At(p, "begin") : j < i
              /\ Over(p) /\ Issued("execute", TRUE) \in Range(call[p].log)
                    => /\ Cardinality(At(p, "commit")) = 1
                       /\ call[p].pc = "returned"
                       /\ call[p].ret = call[p].affected
              /\ Over(p) /\ Issued("execute", FALSE) \in Range(call[p].log)
                    => /\ At(p, "rollback") # {}
                       /\ At(p, "commit") = {}
                       /\ call[p].pc = "raised"
                       /\ call[p].err = "E_execute"

\* C1, amended: begin precedes the statement, and the statement is issued only
\* after begin succeeded; a statement that executes without error is followed
\* by exactly one commit, and the call returns the affected-row count when that
\* commit succeeds, while a failing commit is followed by a rollback and the
\* call raises; a failing statement is followed by exactly one rollback and no
\* commit, and the call raises; the error raised is the one of the failing
\* statement or commit when the rollback succeeds, and the rollback's own when
\* it fails; with autocommit=true no begin, commit or rollback is ever issued.
C1_Protocol ==
    \A p \in Callers :
        /\ call[p].kind = "execute" /\ call[p].autocommit
              => At(p, "begin") \cup At(p, "commit") \cup At(p, "rollback") = {}
        /\ Transactional(p) =>
              LET log == call[p].log
                  stmtOk     == Issued("execute", TRUE) \in Range(log)
                  stmtFailed == Issued("execute", FALSE) \in Range(log)
                  commitOk   == Issued("commit", TRUE) \in Range(log)
                  rolledBack == Issued("rollback", TRUE) \in Range(log)
              IN  /\ \A i \in At(p, "execute") :
                        i = 2 /\ log[1] = Issued("begin", TRUE)
                  /\ \A i \in At(p, "commit") : i = 3 /\ log[2] = Issued("execute", TRUE)
                  /\ \A i \in At(p, "rollback") :
                        \/ i = 3 /\ log[2] = Issued("execute", FALSE)
                        \/ i = 4 /\ log[3] = Issued("commit", FALSE)
                  /\ Over(p) /\ stmtOk
                        => /\ Cardinality(At(p, "commit")) = 1
                           /\ commitOk => /\ call[p].pc = "returned"
                                          /\ call[p].ret = call[p].affected
                                          /\ At(p, "rollback") = {}
                           /\ ~commitOk => /\ call[p].pc = "raised"
                                           /\ Cardinality(At(p, "rollback")) = 1
                                           /\ call[p].err = IF rolledBack THEN "E_commit"
                                                            ELSE "E_rollback"
                  /\ Over(p) /\ stmtFailed
                        => /\ Cardinality(At(p, "rollback")) = 1
                           /\ At(p, "commit") = {}
                           /\ call[p].pc = "raised"
                           /\ call[p].err = IF rolledBack THEN "E_execute"
                                            ELSE "E_rollback"

\* an execute without autocommit whose commit failed: rolled back, then raised
C1_CommitFailed ==
    \E p \in Callers :
        /\ Transactional(p)
        /\ call[p].pc = "raised"
        /\ call[p].err = "E_commit"
        /\ call[p].log = <<Issued("begin", TRUE), Issued("execute", TRUE),
                           Issued("commit", FALSE), Issued("rollback", TRUE)>>

----------------------------------------------------------------------------
(* Properties of connection acquisition and release (SpecPool) *)

\* where a call holds the connection the pool gave it
Holding == {"begin", "execute", "fetch", "commit", "rollback", "release"}

\* C2: under every interleaving of select and execute calls, a call the pool
\* admits acquires exactly one connection (one it refuses acquires none), no
\* connection is with two calls at once, the connection a call works on is
\* checked out of the pool, it is back in the pool before the call returns or
\* raises whatever driver call failed, and once every call is over no
\* connection is held.
C2_ScopedAcquisition ==
    /\ \A p \in Callers :
          /\ call[p].pc \in Holding
                => /\ Cardinality(call[p].conn) = 1
                   /\ call[p].conn \subseteq used
                   /\ call[p].acquired = 1
          /\ call[p].pc \notin Holding => call[p].conn = {}
          /\ Over(p) => call[p].acquired =
                            IF call[p].err \in {"NameError", "RuntimeError"} THEN 0 ELSE 1
    /\ \A p, q \in Callers : p # q => call[p].conn \cap call[q].conn = {}
    /\ used = UNION {call[p].conn : p \in Callers}
    /\ free \cap used = {}
    /\ (\A p \in Callers : call[p].pc \in {"idle", "returned", "raised"}) => used = {}

\* a call raised after its rollback failed, and the connection it worked on
\* is already with another call
C2_ReleasedAfterError ==
    \E p \in Callers, q \in Callers :
        /\ p # q
        /\ call[p].pc = "raised"
        /\ call[p].err = "E_rollback"
        /\ call[p].acquired = 1
        /\ call[q].pc \in Holding
        /\ Len(call[q].log) > 0

----------------------------------------------------------------------------
(* Properties of destroy_pool (SpecPool) *)

\* C6 as the specification states it: destroy_pool called when create_pool has
\* never run returns normally, without an error and without touching a
\* connection; called on a created pool it returns only once the pool is closed
\* and no connection is out.
C6_AsStated ==
    /\ destroy.pc \in {"returned", "raised"} /\ ~destroy.bound
          => destroy.pc = "returned" /\ destroy.err = ""
    /\ destroy.pc = "returned" /\ destroy.bound
          => pool = "closed" /\ used = {} /\ free = {}

----------------------------------------------------------------------------
(* Properties of class declaration (SpecMeta) *)

\* the positions of the class statement's primary-key fields, in declaration order
PrimaryKeysOf(stmt) ==
    {i \in DOMAIN stmt.attrs : stmt.attrs[i].v.isField /\ stmt.attrs[i].v.primary_key}

\* C5 as the specification states it: declaring a concrete entity type succeeds
\* if and only if exactly one declared field has the primary-key flag; with
\* none the declaration fails with the schema error (StandardError in the
\* code), with two or more it fails with the schema error naming the second
\* primary-key field in declaration order; a failed declaration yields no class.
C5_AsStated ==
    res.done /\ decl.name # "Model" =>
        LET pks    == PrimaryKeysOf(decl)
            first  == CHOOSE i \in pks : \A j \in pks : i <= j
            second == CHOOSE i \in pks \ {first} : \A j \in pks \ {first} : i <= j
        IN  /\ (Cardinality(pks) = 1) <=> (res.raised = NoExc /\ res.cls.mapped)
            /\ pks = {}
                  => /\ res.raised.exc = "StandardError"
                     /\ res.cls = NoClass
            /\ Cardinality(pks) >= 2
                  => /\ res.raised.exc = "StandardError"
                     /\ res.raised.arg = decl.attrs[second].k
                     /\ res.cls = NoClass

\* C9 as stated: in every declared class each mapped field goes by one column
\* identifier in all four templates: the update template's set clauses name,
\* field by field, the columns the insert template lists and the select
\* template lists after the primary key, and all four name the same primary-key
\* column, also when a field was given a name other than its attribute name.
C9_AsStated ==
    res.done /\ res.cls.mapped =>
        LET c   == res.cls
            n   == Len(c.fields)
            sel == ColNames(c.select)
            ins == ColNames(c.insert)
            upd == ColNames(c.update)
            del == ColNames(c.delete)
        IN  /\ Len(sel) = n + 1 /\ Len(ins) = n + 1 /\ Len(upd) = n + 1 /\ Len(del) = 1
            /\ \A i \in 1..n : upd[i] = ins[i] /\ upd[i] = sel[i + 1]
            /\ sel[1] = ins[n + 1] /\ sel[1] = upd[n + 1] /\ sel[1] = del[1]

----------------------------------------------------------------------------
(* Properties of save, update, remove and find on one instance (SpecOrm) *)

\* the keys whose default is a zero-argument producer
ProducerKeys(c) == {k \in Keys(c) : c.mappings[k].default.kind = "callable"}

PlainlyNamed(c) == \A i \in DOMAIN c.fields : UpdateColumn(c.mappings, c.fields[i]) = c.fields[i]

\* C4 as the specification states it, for classes whose update template names
\* the columns its select template names: for a stored row and an instance
\* carrying its primary key, hydrated by find or constructed with only some
\* fields set (to the values the row has), assigning one non-key field and
\* calling update() succeeds, and find(pk) then returns the new value for that
\* field and, for every other mapped field, the value the row had before
\* update().
C4_AsStated ==
    /\ last.op = "update"
    /\ last.hadRow
    /\ last.mutated \in Range(Class.fields)
    /\ PlainlyNamed(Class)
    /\ \A k \in DOMAIN last.self \ {last.mutated} : last.self[k] = last.before[k]
    => LET c == Class
           r == find(c, table, last.pk)
       IN  /\ last.err = ""
           /\ r.err = "" /\ r.found
           /\ r.obj[last.mutated] = inst[last.mutated]
           /\ \A k \in Keys(c) \ {last.mutated} : r.obj[k] = last.before[k]

\* C7: the insert and the update template of a class with N other fields hold
\* N+1 placeholders each; the insert template lists the other fields in
\* declaration order and the primary key last, the update template has N set
\* clauses and the primary key in its where clause; save() and update() pass
\* execute N+1 arguments: the values of the other fields in declaration order,
\* then the primary key's.
C7_Placeholders ==
    cls # NoName =>
        LET c == Class
            n == Len(c.fields)
        IN  /\ Placeholders(c.insert) = n + 1
            /\ Placeholders(c.update) = n + 1
            /\ ColNames(c.insert) = Append(c.fields, c.primary_key)
            /\ Len(ColNames(c.update)) = n + 1
            /\ ColNames(c.update)[n + 1] = c.primary_key
            /\ IndexOf(c.update, Kw("where")) = Len(c.update) - 3
            /\ last.op \in {"save", "update"}
                  => /\ Len(last.args) = n + 1
                     /\ \A i \in 1..n : last.args[i] = getValue(inst, c.fields[i])
                     /\ last.args[n + 1] = getValue(inst, c.primary_key)

\* an update of a class with two other fields passed three arguments, the
\* three of them different from None
C7_UpdateOfThree ==
    /\ last.op = "update"
    /\ Len(Class.fields) = 2
    /\ Len(last.args) = 3
    /\ \A i \in 1..3 : last.args[i] # None

\* C8 as the specification states it: over any sequence of getValueOrDefault,
\* save, update and remove calls on an instance, the producer of a field is
\* invoked at most once, namely when getValueOrDefault or save meets the field
\* absent; the value produced is stored on the instance; update() and remove()
\* invoke no producer and add no key.
C8_AsStated ==
    /\ \A k \in ProducerKeys(Class) : invoked[k] <= 1
    /\ \A k \in last.called : k \in DOMAIN inst
    /\ last.op \in {"update", "remove"}
          => last.called = {} /\ DOMAIN inst = DOMAIN last.self

\* the keys whose producer never returns None
SureKeys == {k \in ProducerKeys(Class) : None \notin Class.mappings[k].default.range}

\* what C8 says of the latest call, for the keys in ks
C8_Latest(ks) ==
    /\ last.op \in {"getValueOrDefault", "save"}
          => \A k \in ks :
                LET asked  == last.op = "save" \/ last.key = k
                    absent == getValue(last.self, k) = None
                IN  /\ k \in last.called <=> asked /\ absent
                    /\ k \in last.called => k \in DOMAIN last.obj /\ last.obj[k] # None
                    /\ asked /\ ~absent => last.obj[k] = last.self[k]
                    /\ last.op = "getValueOrDefault" /\ last.key = k
                          => last.ret = last.obj[k]
    /\ last.op \in {"update", "remove"}
          => last.called = {} /\ DOMAIN inst = DOMAIN last.self

\* C8, amended: for a field whose producer never returns None, over any sequence
\* of getValueOrDefault, save, update and remove calls on an instance the
\* producer is invoked at most once, exactly when getValueOrDefault or save
\* first meets the field absent; the value produced is stored on the instance
\* and is what later calls return or send; update() and remove() invoke no
\* producer and add no key to the instance.
C8_OncePerInstance ==
    /\ [](/\ \A k \in SureKeys : /\ invoked[k] <= 1
                                 /\ invoked[k] = 1 => k \in DOMAIN inst /\ inst[k] # None
          /\ C8_Latest(SureKeys))
    /\ [][last'.op \in {"update", "remove"}
             => invoked' = invoked /\ DOMAIN inst' = DOMAIN inst]_vars

\* a second getValueOrDefault on a key whose producer has run: it returns the
\* stored value and the producer is not called again
C8_SecondCall ==
    /\ last.op = "getValueOrDefault"
    /\ cls = "Blog"
    /\ last.key = "id"
    /\ invoked["id"] = 1
    /\ last.called = {}
    /\ last.ret = inst["id"]

----------------------------------------------------------------------------
(* Properties of findAll (SpecFind) *)

\* the placeholders of the limit clause of a statement
LimitPlaceholders(sql) ==
    IF IndexOf(sql, Kw("limit")) = 0 THEN 0
    ELSE Placeholders(SubSeq(sql, IndexOf(sql, Kw("limit")), Len(sql)))

\* C10 as the specification states it: a findAll that reaches select leaves the
\* list the caller passed as args as it was, and when the caller made that
\* list with one value per placeholder of its where clause, the arguments
\* handed to select are as many as the placeholders of the statement built,
\* however often the list was passed before.
C10_AsStated ==
    last.op = "findAll" /\ last.err # "ValueError" /\ last.passed =>
        /\ last.listAfter = last.listBefore
        /\ Len(last.made) = Placeholders(last.sql) - LimitPlaceholders(last.sql)
              => Len(last.args) = Placeholders(last.sql)

====
